---------------------------- MODULE Spec2Model ----------------------------
(***************************************************************************)
(* A model of the portfolio page script (src/script.js): the data loader   *)
(* with its session cache and its fetch-with-timeout, the renderers and    *)
(* the error state, and the two pure derivations of the renderers (the     *)
(* tag list of a project card and the logo label of the profile).          *)
(*                                                                         *)
(* Time is counted in units of 100 ms.  JavaScript values are tagged        *)
(* records, strings are sequences of atoms, JSON text is a sequence of     *)
(* tokens.                                                                 *)
(***************************************************************************)
EXTENDS Integers, Sequences, FiniteSets, TLC

(***************************************************************************)
(* Bounds of the model.                                                    *)
(***************************************************************************)
MaxTime == 6
MaxLoads == 2
MaxTagsLen == 4
MaxTagItemLen == 2
MaxTagItems == 2
MaxNameLen == 4

(***************************************************************************)
(* Configuration (CONFIG is read by the script and set by the host page).  *)
(***************************************************************************)
CACHE_DURATION == 3
API_TIMEOUT == 2
SampleDelay == 3

(***************************************************************************)
(* JavaScript values.                                                      *)
(***************************************************************************)
Undefined == [t |-> "undefined"]
Null == [t |-> "null"]
Bool(b) == [t |-> "boolean", b |-> b]
Num(n) == [t |-> "number", n |-> n]
Str(s) == [t |-> "string", s |-> s]
Arr(items) == [t |-> "array", items |-> items]
Obj(members) == [t |-> "object", members |-> members]
Member(key, val) == [key |-> key, val |-> val]

\* obj[key]: the value of the last member named key, undefined when there is
\* none (and for a primitive, which has no own property of that name).
Get(v, key) ==
    IF v.t # "object" THEN Undefined
    ELSE LET idx == {i \in 1..Len(v.members) : v.members[i].key = key}
         IN IF idx = {} THEN Undefined
            ELSE v.members[CHOOSE i \in idx : \A j \in idx : j <= i].val

\* ToBoolean, as `!x`, `a || b` and `if (x)` apply it.
Truthy(v) ==
    CASE v.t = "undefined" -> FALSE
      [] v.t = "null" -> FALSE
      [] v.t = "boolean" -> v.b
      [] v.t = "number" -> v.n # 0
      [] v.t = "string" -> v.s # <<>>
      [] OTHER -> TRUE

\* A property read throws a TypeError on undefined and null.
IsNullish(v) == v.t \in {"undefined", "null"}

(***************************************************************************)
(* Numbers as decimal text.                                                *)
(***************************************************************************)
DigitChars == <<"0", "1", "2", "3", "4", "5", "6", "7", "8", "9">>

RECURSIVE NumberToString(_)
NumberToString(n) ==
    IF n < 10 THEN <<DigitChars[n + 1]>>
    ELSE NumberToString(n \div 10) \o <<DigitChars[(n % 10) + 1]>>

IsDigit(c) == \E d \in 1..10 : DigitChars[d] = c

DigitValue(c) == (CHOOSE d \in 1..10 : DigitChars[d] = c) - 1

IsDigits(s) == Len(s) > 0 /\ \A i \in 1..Len(s) : IsDigit(s[i])

RECURSIVE StringToNumber(_)
StringToNumber(s) ==
    IF Len(s) = 1 THEN DigitValue(s[1])
    ELSE 10 * StringToNumber(SubSeq(s, 1, Len(s) - 1)) + DigitValue(s[Len(s)])

(***************************************************************************)
(* JSON text: a sequence of tokens.  JSON.stringify writes it, JSON.parse  *)
(* reads it back or throws a SyntaxError.                                  *)
(***************************************************************************)
Punct(c) == [k |-> "punct", v |-> <<c>>]
StrTok(s) == [k |-> "string", v |-> s]
NumTok(n) == [k |-> "number", v |-> NumberToString(n)]
WordTok(w) == [k |-> "word", v |-> <<w>>]

RECURSIVE SerializeJSONProperty(_), SerializeJSONArray(_, _), SerializeJSONObject(_, _, _)
SerializeJSONProperty(v) ==
    CASE v.t = "null" -> <<WordTok("null")>>
      [] v.t = "boolean" -> <<WordTok(IF v.b THEN "true" ELSE "false")>>
      [] v.t = "number" -> <<NumTok(v.n)>>
      [] v.t = "string" -> <<StrTok(v.s)>>
      [] v.t = "array" ->
            <<Punct("[")>> \o SerializeJSONArray(v.items, 1) \o <<Punct("]")>>
      [] v.t = "object" ->
            <<Punct("{")>> \o SerializeJSONObject(v.members, 1, TRUE) \o <<Punct("}")>>

\* The elements from place i on: undefined is written as null.
SerializeJSONArray(items, i) ==
    IF i > Len(items) THEN <<>>
    ELSE (IF i > 1 THEN <<Punct(",")>> ELSE <<>>)
         \o (IF items[i].t = "undefined" THEN <<WordTok("null")>>
             ELSE SerializeJSONProperty(items[i]))
         \o SerializeJSONArray(items, i + 1)

\* The members from place i on: a member whose value is undefined is left out.
SerializeJSONObject(ms, i, first) ==
    IF i > Len(ms) THEN <<>>
    ELSE IF ms[i].val.t = "undefined" THEN SerializeJSONObject(ms, i + 1, first)
    ELSE (IF first THEN <<>> ELSE <<Punct(",")>>)
         \o <<StrTok(ms[i].key), Punct(":")>>
         \o SerializeJSONProperty(ms[i].val)
         \o SerializeJSONObject(ms, i + 1, FALSE)

\* JSON.stringify of a value that is not undefined.
JSONStringify(v) == SerializeJSONProperty(v)

ParseFail(i) == [ok |-> FALSE, val |-> Undefined, next |-> i]
ParseOk(v, i) == [ok |-> TRUE, val |-> v, next |-> i]

RECURSIVE ParseValue(_, _), ParseElements(_, _, _), ParseMembers(_, _, _)
ParseValue(toks, i) ==
    IF i > Len(toks) THEN ParseFail(i)
    ELSE LET tk == toks[i]
         IN CASE tk.k = "string" -> ParseOk(Str(tk.v), i + 1)
              [] tk.k = "number" ->
                     IF IsDigits(tk.v) THEN ParseOk(Num(StringToNumber(tk.v)), i + 1)
                     ELSE ParseFail(i)
              [] tk.k = "word" ->
                     CASE tk.v = <<"null">> -> ParseOk(Null, i + 1)
                       [] tk.v = <<"true">> -> ParseOk(Bool(TRUE), i + 1)
                       [] tk.v = <<"false">> -> ParseOk(Bool(FALSE), i + 1)
                       [] OTHER -> ParseFail(i)
              [] tk = Punct("[") ->
                     IF i + 1 <= Len(toks) /\ toks[i + 1] = Punct("]")
                     THEN ParseOk(Arr(<<>>), i + 2)
                     ELSE ParseElements(toks, i + 1, <<>>)
              [] tk = Punct("{") ->
                     IF i + 1 <= Len(toks) /\ toks[i + 1] = Punct("}")
                     THEN ParseOk(Obj(<<>>), i + 2)
                     ELSE ParseMembers(toks, i + 1, <<>>)
              [] OTHER -> ParseFail(i)

\* The elements of an array from token j on, acc the elements read so far.
ParseElements(toks, j, acc) ==
    LET r == ParseValue(toks, j)
    IN IF ~r.ok \/ r.next > Len(toks) THEN ParseFail(j)
       ELSE IF toks[r.next] = Punct(",")
            THEN ParseElements(toks, r.next + 1, Append(acc, r.val))
       ELSE IF toks[r.next] = Punct("]")
            THEN ParseOk(Arr(Append(acc, r.val)), r.next + 1)
       ELSE ParseFail(j)

\* The members of an object from token j on, acc the members read so far.
ParseMembers(toks, j, acc) ==
    IF j + 1 > Len(toks) THEN ParseFail(j)
    ELSE IF toks[j].k # "string" \/ toks[j + 1] # Punct(":") THEN ParseFail(j)
    ELSE LET r == ParseValue(toks, j + 2)
         IN IF ~r.ok \/ r.next > Len(toks) THEN ParseFail(j)
            ELSE IF toks[r.next] = Punct(",")
                 THEN ParseMembers(toks, r.next + 1,
                                   Append(acc, Member(toks[j].v, r.val)))
            ELSE IF toks[r.next] = Punct("}")
                 THEN ParseOk(Obj(Append(acc, Member(toks[j].v, r.val))), r.next + 1)
            ELSE ParseFail(j)

\* JSON.parse: [ok |-> TRUE, val |-> the value], or ok = FALSE for a SyntaxError.
JSONParse(text) ==
    LET r == ParseValue(text, 1)
    IN IF r.ok /\ r.next = Len(text) + 1 THEN [ok |-> TRUE, val |-> r.val]
       ELSE [ok |-> FALSE, val |-> Undefined]

(***************************************************************************)
(* Strings.  A string is a sequence of atoms: one character each wherever  *)
(* the code looks inside the string (split, trim, charAt, slice, replace), *)
(* a whole word where the code only compares or copies it (property        *)
(* names, platform names, the "mailto:" prefix).                           *)
(***************************************************************************)
IsWhitespace(c) == c \in {" ", "\t"}

\* String.prototype.split with a one-character separator.
RECURSIVE Split(_, _)
Split(s, sep) ==
    LET idx == {i \in 1..Len(s) : s[i] = sep}
    IN IF idx = {} THEN <<s>>
       ELSE LET i == CHOOSE j \in idx : \A m \in idx : j <= m
            IN <<SubSeq(s, 1, i - 1)>> \o Split(SubSeq(s, i + 1, Len(s)), sep)

\* String.prototype.trim.
RECURSIVE Trim(_)
Trim(s) ==
    IF s = <<>> THEN s
    ELSE IF IsWhitespace(s[1]) THEN Trim(Tail(s))
    ELSE IF IsWhitespace(s[Len(s)]) THEN Trim(SubSeq(s, 1, Len(s) - 1))
    ELSE s

\* Array.prototype.join over strings.
RECURSIVE Join(_, _)
Join(parts, sep) ==
    IF parts = <<>> THEN <<>>
    ELSE IF Len(parts) = 1 THEN parts[1]
    ELSE parts[1] \o sep \o Join(Tail(parts), sep)

\* String.prototype.charAt: the empty string past the end.
CharAt(s, i) == IF i + 1 <= Len(s) THEN <<s[i + 1]>> ELSE <<>>

\* String.prototype.slice(from).
Slice(s, from) == SubSeq(s, from + 1, Len(s))

\* String.prototype.replace(pattern, replacement) for a string pattern: the
\* first occurrence only.
Replace(s, pat, rep) ==
    LET at == {i \in 1..(Len(s) - Len(pat) + 1) : SubSeq(s, i, i + Len(pat) - 1) = pat}
    IN IF at = {} THEN s
       ELSE LET i == CHOOSE j \in at : \A m \in at : j <= m
            IN SubSeq(s, 1, i - 1) \o rep \o SubSeq(s, i + Len(pat), Len(s))

MapTrim(parts) == [i \in 1..Len(parts) |-> Trim(parts[i])]

\* Array.prototype.filter(t => t) over strings: the empty string is falsy.
FilterNonEmpty(parts) == SelectSeq(parts, LAMBDA t : t # <<>>)

\* String(v), as a template literal and textContent apply it.
RECURSIVE StringOf(_)
StringOf(v) ==
    CASE v.t = "undefined" -> <<"undefined">>
      [] v.t = "null" -> <<"null">>
      [] v.t = "boolean" -> <<IF v.b THEN "true" ELSE "false">>
      [] v.t = "number" -> NumberToString(v.n)
      [] v.t = "string" -> v.s
      [] v.t = "array" ->
            Join([i \in 1..Len(v.items) |->
                      IF IsNullish(v.items[i]) THEN <<>> ELSE StringOf(v.items[i])],
                 <<",">>)
      [] OTHER -> <<"[object Object]">>

(***************************************************************************)
(* createProjectCard: the tag list of a card.                              *)
(***************************************************************************)
\* [threw, tags]: the list `tags` of createProjectCard for project.tags = v, each
\* element as the template literal writes it.
CardTags(v) ==
    IF v.t = "array"
    THEN [threw |-> FALSE, tags |-> [i \in 1..Len(v.items) |-> StringOf(v.items[i])]]
    ELSE IF ~Truthy(v)
    THEN [threw |-> FALSE, tags |-> FilterNonEmpty(MapTrim(Split(<<>>, ",")))]
    ELSE IF v.t = "string"
    THEN [threw |-> FALSE, tags |-> FilterNonEmpty(MapTrim(Split(v.s, ",")))]
    ELSE [threw |-> TRUE, tags |-> <<>>]

(***************************************************************************)
(* renderProfile: the logo label.                                          *)
(***************************************************************************)
\* [initial, name]: the texts written to #logo-initial and #logo-name for a
\* non-empty string profile.name.
LogoOf(name) ==
    LET nameParts == Split(name, " ")
    IN IF Len(nameParts) > 1
       THEN [initial |-> CharAt(nameParts[1], 0),
             name |-> Join(Tail(nameParts), <<" ">>)]
       ELSE [initial |-> CharAt(name, 0), name |-> Slice(name, 1)]

(***************************************************************************)
(* The document: the regions the renderers write.                          *)
(***************************************************************************)
InitialText == <<"(initial)">>
InitialRegion == [text |-> InitialText, loaded |-> FALSE]
InitialGrid == [kind |-> "initial", cards |-> <<>>]
InitialLinks == [kind |-> "initial", items |-> <<>>]

InitialDocument ==
    [heroName |-> InitialRegion, heroTitle |-> InitialRegion,
     heroDescription |-> InitialRegion, logoInitial |-> InitialText,
     logoName |-> InitialText, footerText |-> InitialText,
     grid |-> InitialGrid, links |-> InitialLinks]

K(word) == <<word>>
Lit(word) == Str(<<word>>)

\* What a renderer returns here: the document it leaves and whether it threw.
Ran(d) == [dom |-> d, threw |-> FALSE]
Threw(d) == [dom |-> d, threw |-> TRUE]

SetText(d, field, v) ==
    IF Truthy(v) THEN [d EXCEPT ![field] = [text |-> StringOf(v), loaded |-> TRUE]]
    ELSE d

\* The logo and the footer (lines 196-212), d the document so far.
RenderLogoAndFooter(d, name) ==
    IF ~Truthy(name) THEN Ran(d)
    ELSE IF name.t # "string" THEN Threw(d)
    ELSE Ran([d EXCEPT
                !.logoInitial = LogoOf(name.s).initial,
                !.logoName = LogoOf(name.s).name,
                !.footerText = <<"(c)", " ", "YYYY", " ">> \o name.s
                               \o <<".", " ", "Hak Cipta Dilindungi.">>])

RenderProfile(d, profile) ==
    IF ~Truthy(profile) THEN Ran(d)
    ELSE RenderLogoAndFooter(
             SetText(SetText(SetText(d, "heroName", Get(profile, K("name"))),
                             "heroTitle", Get(profile, K("tagline"))),
                     "heroDescription", Get(profile, K("description"))),
             Get(profile, K("name")))

\* [threw, card]: the article of one project; index is its place in the list.
CardOf(project, index, r) ==
    IF r.threw THEN [threw |-> TRUE, card |-> <<>>]
    ELSE [threw |-> FALSE,
          card |-> [transitionDelay |-> index,
                    src |-> <<"placeholderSvg">>,
                    hasDataSrc |-> TRUE,
                    dataSrc |-> StringOf(Get(project, K("image_url"))),
                    imgLoaded |-> FALSE,
                    href |-> StringOf(Get(project, K("link_project"))),
                    title |-> StringOf(Get(project, K("title"))),
                    desc |-> StringOf(Get(project, K("description"))),
                    tags |-> r.tags]]

CreateProjectCard(project, index) ==
    IF IsNullish(project) THEN [threw |-> TRUE, card |-> <<>>]
    ELSE CardOf(project, index, CardTags(Get(project, K("tags"))))

\* grid.appendChild(card), unless createProjectCard threw.
AppendCard(d, c) ==
    IF c.threw THEN Threw(d) ELSE Ran([d EXCEPT !.grid.cards = Append(@, c.card)])

RECURSIVE AppendCards(_, _, _)
AppendCards(r, items, i) ==
    IF r.threw \/ i > Len(items) THEN r
    ELSE AppendCards(AppendCard(r.dom, CreateProjectCard(items[i], i - 1)), items, i + 1)

ClearGrid(d) == [d EXCEPT !.grid = [kind |-> "cards", cards |-> <<>>]]

RenderProjects(d, projects) ==
    IF ~Truthy(projects) THEN Ran(d)
    ELSE IF projects.t # "array" THEN Threw(ClearGrid(d))
    ELSE IF Len(projects.items) = 0 THEN Ran(d)
    ELSE AppendCards(Ran(ClearGrid(d)), projects.items, 1)

IconNames ==
    {"email", "github", "linkedin", "twitter", "instagram", "whatsapp", "default"}

PlatformLabels ==
    [github |-> "GitHub", linkedin |-> "LinkedIn", twitter |-> "Twitter",
     instagram |-> "Instagram", whatsapp |-> "WhatsApp", website |-> "Website"]

HasIcon(v) == \E n \in IconNames : StringOf(v) = <<n>>

IconOf(link) ==
    IF HasIcon(Get(link, K("icon"))) THEN StringOf(Get(link, K("icon")))
    ELSE IF HasIcon(Get(link, K("platform"))) THEN StringOf(Get(link, K("platform")))
    ELSE <<"default">>

EmailLabel(url) ==
    IF url.t = "string"
    THEN [threw |-> FALSE, label |-> Replace(url.s, <<"mailto:">>, <<>>)]
    ELSE [threw |-> TRUE, label |-> <<>>]

PlatformLabel(platform) ==
    IF \E n \in DOMAIN PlatformLabels : StringOf(platform) = <<n>>
    THEN [threw |-> FALSE,
          label |-> <<PlatformLabels[CHOOSE n \in DOMAIN PlatformLabels :
                                         StringOf(platform) = <<n>>]>>]
    ELSE IF Truthy(platform) THEN [threw |-> FALSE, label |-> StringOf(platform)]
    ELSE [threw |-> FALSE, label |-> <<"Link">>]

\* [threw, label].
GetDisplayLabel(link) ==
    IF Get(link, K("platform")) = Lit("email") THEN EmailLabel(Get(link, K("url")))
    ELSE PlatformLabel(Get(link, K("platform")))

\* The anchor of one link appended, unless getDisplayLabel threw.
AppendLink(d, link, l) ==
    IF l.threw THEN Threw(d)
    ELSE Ran([d EXCEPT !.links.items =
                 Append(@, [href |-> StringOf(Get(link, K("url"))),
                            target |-> IF Get(link, K("platform")) = Lit("email")
                                       THEN "_self" ELSE "_blank",
                            rel |-> "noopener noreferrer",
                            icon |-> IconOf(link),
                            label |-> l.label])])

RECURSIVE AppendLinks(_, _, _)
AppendLinks(r, items, i) ==
    IF r.threw \/ i > Len(items) THEN r
    ELSE IF IsNullish(items[i]) THEN Threw(r.dom)
    ELSE AppendLinks(AppendLink(r.dom, items[i], GetDisplayLabel(items[i])),
                     items, i + 1)

ClearLinks(d) == [d EXCEPT !.links = [kind |-> "links", items |-> <<>>]]

RenderSocialLinks(d, social) ==
    IF ~Truthy(social) THEN Ran(d)
    ELSE IF social.t # "array" THEN Threw(ClearLinks(d))
    ELSE IF Len(social.items) = 0 THEN Ran(d)
    ELSE AppendLinks(Ran(ClearLinks(d)), social.items, 1)

ErrorGrid == [kind |-> "error", cards |-> <<>>]

\* ShowErrorState finding no grid element: nothing is written.
ShowErrorState_NoGrid(d) == d

ShowErrorState(d) == [d EXCEPT !.grid = ErrorGrid]

(***************************************************************************)
(* The session cache: sessionStorage under the one key 'portfolio_data'.   *)
(***************************************************************************)
NoItem == [present |-> FALSE, text |-> <<>>]
Item(text) == [present |-> TRUE, text |-> text]

NaN == [nan |-> TRUE, n |-> 0]
Number(n) == [nan |-> FALSE, n |-> n]

\* ToNumber, as the subtraction `now - timestamp` applies it.
RECURSIVE ToNumber(_)
ToNumber(v) ==
    CASE v.t = "undefined" -> NaN
      [] v.t = "null" -> Number(0)
      [] v.t = "boolean" -> Number(IF v.b THEN 1 ELSE 0)
      [] v.t = "number" -> Number(v.n)
      [] v.t = "string" ->
            IF Trim(v.s) = <<>> THEN Number(0)
            ELSE IF IsDigits(Trim(v.s)) THEN Number(StringToNumber(Trim(v.s)))
            ELSE NaN
      [] v.t = "array" ->
            IF Len(v.items) = 0 THEN Number(0)
            ELSE IF Len(v.items) = 1
                 THEN (IF IsNullish(v.items[1]) THEN Number(0)
                       ELSE IF v.items[1].t \in {"number", "string", "array"}
                            THEN ToNumber(v.items[1])
                       ELSE NaN)
            ELSE NaN
      [] OTHER -> NaN

\* ReadEnvelope with the comparison off by one: <= for <.
ReadEnvelope_OffByOne(st, envelope, timestamp, t) ==
    IF ~timestamp.nan /\ t - timestamp.n <= CACHE_DURATION
    THEN [result |-> Get(envelope, K("data")), storage |-> st]
    ELSE [result |-> Null, storage |-> NoItem]

\* Lines 91-101 for the parsed envelope: fresh data is returned, else the
\* item is removed.
ReadEnvelope(st, envelope, timestamp, t) ==
    IF ~timestamp.nan /\ t - timestamp.n < CACHE_DURATION
    THEN [result |-> Get(envelope, K("data")), storage |-> st]
    ELSE [result |-> Null, storage |-> NoItem]

\* Lines 91-104 for the outcome of JSON.parse: a SyntaxError, and the
\* TypeError of destructuring null, are caught.
ReadParsed(st, parsed, t) ==
    IF ~parsed.ok \/ IsNullish(parsed.val) THEN [result |-> Null, storage |-> st]
    ELSE ReadEnvelope(st, parsed.val, ToNumber(Get(parsed.val, K("timestamp"))), t)

\* getCachedData at time t: [result, storage], the value returned and the item
\* left in storage.  readable = FALSE: sessionStorage throws on access.
GetCachedData(st, readable, t) ==
    IF ~readable THEN [result |-> Null, storage |-> st]
    ELSE IF ~st.present \/ st.text = <<>> THEN [result |-> Null, storage |-> st]
    ELSE ReadParsed(st, JSONParse(st.text), t)

\* setCachedData at time t: [storage, threw], the item left in storage and
\* whether setItem threw (caught inside).  writable = FALSE: setItem throws.
\* SetCachedData writing the time under another name than the reader's.
SetCachedData_OtherKey(st, writable, data, t) ==
    IF writable
    THEN [storage |-> Item(JSONStringify(Obj(<<Member(K("data"), data),
                                               Member(K("time"), Num(t))>>))),
          threw |-> FALSE]
    ELSE [storage |-> st, threw |-> TRUE]

SetCachedData(st, writable, data, t) ==
    IF writable
    THEN [storage |-> Item(JSONStringify(Obj(<<Member(K("data"), data),
                                               Member(K("timestamp"), Num(t))>>))),
          threw |-> FALSE]
    ELSE [storage |-> st, threw |-> TRUE]

(***************************************************************************)
(* Lazy image loading.                                                     *)
(***************************************************************************)
\* LoadImage leaving the data-src attribute on the image.
LoadImage_KeepsAttribute(card) ==
    IF ~card.hasDataSrc \/ card.dataSrc = <<>> THEN card
    ELSE [card EXCEPT !.src = card.dataSrc, !.imgLoaded = TRUE]

\* loadImage on one card's image.
LoadImage(card) ==
    IF ~card.hasDataSrc \/ card.dataSrc = <<>> THEN card
    ELSE [card EXCEPT !.src = card.dataSrc, !.hasDataSrc = FALSE,
                      !.imgLoaded = TRUE]

\* document.querySelectorAll('img[data-src]'): the places of the cards.
LazyImages(d) == {i \in 1..Len(d.grid.cards) : d.grid.cards[i].hasDataSrc}

\* initLazyLoading: [dom, observed].
InitLazyLoading(d, hasObserver) ==
    IF hasObserver THEN [dom |-> d, observed |-> LazyImages(d)]
    ELSE [dom |-> [d EXCEPT !.grid.cards =
                       [i \in 1..Len(d.grid.cards) |-> LoadImage(d.grid.cards[i])]],
          observed |-> {}]

(***************************************************************************)
(* loadPortfolioData, from the point where `data` is settled: the three    *)
(* renderers in turn, the observers, and the catch clause.                 *)
(***************************************************************************)
Call(fn, arg, completed) == [fn |-> fn, arg |-> arg, completed |-> completed]

\* The catch clause (lines 57-60) after the renderers in calls.
Caught(d, calls) ==
    [dom |-> ShowErrorState(d), observed |-> {}, calls |-> calls,
     error |-> "TypeError"]

\* Lines 53-55 after the three renderers.
Rendered(z, calls) ==
    [dom |-> z.dom, observed |-> z.observed, calls |-> calls, error |-> "none"]

AfterSocial(c, data, hasObs, calls) ==
    IF c.threw
    THEN Caught(c.dom, Append(calls, Call("renderSocialLinks",
                                          Get(data, K("social")), FALSE)))
    ELSE Rendered(InitLazyLoading(c.dom, hasObs),
                  Append(calls, Call("renderSocialLinks", Get(data, K("social")),
                                     TRUE)))

AfterProjects(b, data, hasObs, calls) ==
    IF b.threw
    THEN Caught(b.dom, Append(calls, Call("renderProjects",
                                          Get(data, K("projects")), FALSE)))
    ELSE AfterSocial(RenderSocialLinks(b.dom, Get(data, K("social"))), data, hasObs,
                     Append(calls, Call("renderProjects", Get(data, K("projects")),
                                        TRUE)))

AfterProfile(a, data, hasObs) ==
    IF a.threw
    THEN Caught(a.dom, <<Call("renderProfile", Get(data, K("profile")), FALSE)>>)
    ELSE AfterProjects(RenderProjects(a.dom, Get(data, K("projects"))), data, hasObs,
                       <<Call("renderProfile", Get(data, K("profile")), TRUE)>>)

\* Lines 48-60: [dom, observed, calls, error]; calls lists the renderers
\* invoked, in order, each with its argument and whether it returned.
RenderData(d, data, hasObs) ==
    IF IsNullish(data) THEN Caught(d, <<>>)
    ELSE AfterProfile(RenderProfile(d, Get(data, K("profile"))), data, hasObs)

\* Lines 39-41 for the data of a success = true answer, w what setCachedData did.
Unwrapped(data, w) ==
    [threw |-> FALSE, error |-> "none", data |-> data, storage |-> w.storage,
     wrote |-> TRUE, writeThrew |-> w.threw]

\* The response envelope unwrapped (lines 38-44): [threw, error, data, storage,
\* wrote, writeThrew].
UseResponse(json, st, writable, t) ==
    IF IsNullish(json)
    THEN [threw |-> TRUE, error |-> "TypeError", data |-> Undefined,
          storage |-> st, wrote |-> FALSE, writeThrew |-> FALSE]
    ELSE IF Truthy(Get(json, K("success")))
    THEN Unwrapped(Get(json, K("data")),
                   SetCachedData(st, writable, Get(json, K("data")), t))
    ELSE [threw |-> TRUE, error |-> "DataError", data |-> Undefined,
          storage |-> st, wrote |-> FALSE, writeThrew |-> FALSE]

(***************************************************************************)
(* Data of the model: what the API may answer, what the storage may hold   *)
(* before the first load, and the bundled sample data.                     *)
(***************************************************************************)
ProfileA ==
    Obj(<<Member(K("name"), Str(<<"J", " ", "D">>)),
          Member(K("tagline"), Lit("dev"))>>)

ProjectA ==
    Obj(<<Member(K("id"), Num(1)), Member(K("title"), Lit("One")),
          Member(K("description"), Lit("first")),
          Member(K("image_url"), Lit("one.png")),
          Member(K("link_project"), Lit("https://one")),
          Member(K("tags"), Str(<<"a", ",", " ", "b">>))>>)

ProjectB ==
    Obj(<<Member(K("id"), Num(2)), Member(K("title"), Lit("Two")),
          Member(K("description"), Lit("second")),
          Member(K("image_url"), Lit("two.png")),
          Member(K("link_project"), Lit("https://two")),
          Member(K("tags"), Arr(<<Str(<<"c">>)>>))>>)

\* A project whose tags cell holds a number: the API sends it as a number.
ProjectNumericTags ==
    Obj(<<Member(K("id"), Num(3)), Member(K("title"), Lit("Three")),
          Member(K("description"), Lit("third")),
          Member(K("image_url"), Lit("three.png")),
          Member(K("link_project"), Lit("https://three")),
          Member(K("tags"), Num(7))>>)

\* A project without an image: the API sends an empty image_url.
ProjectNoImage ==
    Obj(<<Member(K("id"), Num(4)), Member(K("title"), Lit("Four")),
          Member(K("description"), Lit("fourth")),
          Member(K("image_url"), Str(<<>>)),
          Member(K("link_project"), Lit("https://four")),
          Member(K("tags"), Str(<<>>))>>)

LinkGithub ==
    Obj(<<Member(K("platform"), Lit("github")), Member(K("url"), Lit("https://gh")),
          Member(K("icon"), Lit("github"))>>)

LinkEmail ==
    Obj(<<Member(K("platform"), Lit("email")),
          Member(K("url"), Str(<<"mailto:", "me@x">>)),
          Member(K("icon"), Lit("email"))>>)

\* An email row whose url cell is empty: the API sends no url.
LinkEmailNoUrl == Obj(<<Member(K("platform"), Lit("email")), Member(K("url"), Null)>>)

PortfolioData(profile, projects, social) ==
    Obj(<<Member(K("profile"), profile), Member(K("projects"), Arr(projects)),
          Member(K("social"), Arr(social))>>)

DataFull == PortfolioData(ProfileA, <<ProjectA, ProjectB>>, <<LinkGithub, LinkEmail>>)
DataSmall == PortfolioData(ProfileA, <<ProjectB>>, <<>>)
DataBadSocial == PortfolioData(ProfileA, <<ProjectA>>, <<LinkEmailNoUrl>>)
DataBadProject == PortfolioData(ProfileA, <<ProjectA, ProjectNumericTags>>, <<LinkGithub>>)
DataNoImage == PortfolioData(ProfileA, <<ProjectNoImage, ProjectA>>, <<>>)

\* The data a success = true answer may carry: well-formed, malformed, none.
Payloads ==
    {DataFull, DataSmall, DataBadSocial, DataBadProject, DataNoImage, Null, Undefined}

\* The payloads every renderer accepts.
WellFormed == {DataFull, DataSmall}

ApiAnswers ==
    {Obj(<<Member(K("success"), Bool(TRUE)), Member(K("data"), p)>>) : p \in Payloads}
    \cup {Obj(<<Member(K("success"), Bool(FALSE)), Member(K("error"), Lit("x"))>>),
          Obj(<<Member(K("success"), Bool(FALSE))>>),
          Null}

\* The bodies a response may carry: the API's JSON, or a page that is no JSON.
NotJSON == <<Punct("<"), StrTok(<<"html">>), Punct(">")>>
ResponseBodies == {JSONStringify(a) : a \in ApiAnswers} \cup {NotJSON}

\* What the key may hold when the session's first load starts: nothing, or
\* what another page of the same origin left there.
ForeignItems ==
    {Item(<<Punct("{")>>), Item(<<WordTok("null")>>),
     Item(<<Punct("{"), Punct("}")>>)}

SAMPLE_DATA == PortfolioData(ProfileA, <<ProjectA>>, <<LinkGithub>>)

(***************************************************************************)
(* State.                                                                  *)
(***************************************************************************)
VARIABLES
    now,          \* Date.now(), in units of 100 ms
    useSample,    \* CONFIG.USE_SAMPLE_DATA
    hasObserver,  \* 'IntersectionObserver' in window
    canRead,      \* sessionStorage can be read (it does not throw)
    canWrite,     \* sessionStorage.setItem does not throw
    storage,      \* the item under 'portfolio_data'
    pc,           \* where loadPortfolioData stands
    timer,        \* the timeout of fetchWithTimeout: [armed, deadline]
    delayUntil,   \* when delay(300) resolves
    dom,          \* the document
    observed,     \* the images the lazy-loading observer observes
    loads,        \* page loads of this session so far
    \* history of the current load
    loadStart,    \* when loadPortfolioData was called
    fetchStart,   \* when fetchWithTimeout was called
    requests,     \* calls of fetch
    cacheReads,   \* calls of getCachedData
    cacheWrites,  \* calls of setCachedData
    writeThrew,   \* setItem threw in this load
    lastRead,     \* the call of getCachedData of this load
    fetched,      \* what the fetch of this load gave: [got, data]
    calls,        \* the renderers invoked, in order
    lastError,    \* the error the catch clause caught, or "none"
    \* history of the session
    lastWrite,    \* the last successful setItem still in storage
    \* the pure derivations, on their own
    project, article, profileName, logo

loaderVars ==
    <<now, useSample, hasObserver, canRead, canWrite, storage, pc, timer,
      delayUntil, dom, observed, loads, loadStart, fetchStart, requests,
      cacheReads, cacheWrites, writeThrew, lastRead, fetched, calls, lastError,
      lastWrite>>
pureVars == <<project, article, profileName, logo>>
vars == <<loaderVars, pureVars>>

NoTimer == [armed |-> FALSE, deadline |-> 0]
NoRead ==
    [did |-> FALSE, at |-> 0, before |-> NoItem, after |-> NoItem,
     result |-> Null, written |-> [valid |-> FALSE, data |-> Null, at |-> 0, load |-> 0]]
NoWrite == [valid |-> FALSE, data |-> Null, at |-> 0, load |-> 0]
NoFetch == [got |-> FALSE, data |-> Undefined]
NoArticle == [done |-> FALSE, threw |-> FALSE, tags |-> <<>>]
NoLogo == [done |-> FALSE, initial |-> <<>>, name |-> <<>>]

PureIdle ==
    /\ project = Undefined
    /\ article = NoArticle
    /\ profileName = <<>>
    /\ logo = NoLogo

LoaderInit ==
    /\ now = 0
    /\ useSample \in BOOLEAN
    /\ hasObserver \in BOOLEAN
    /\ canRead \in BOOLEAN
    /\ canWrite \in BOOLEAN
    /\ canRead \/ ~canWrite  \* disabled storage throws on every access
    /\ storage \in {NoItem} \cup ForeignItems
    /\ pc = "ready"
    /\ timer = NoTimer
    /\ delayUntil = 0
    /\ dom = InitialDocument
    /\ observed = {}
    /\ loads = 1
    /\ loadStart = 0
    /\ fetchStart = 0
    /\ requests = 0
    /\ cacheReads = 0
    /\ cacheWrites = 0
    /\ writeThrew = FALSE
    /\ lastRead = NoRead
    /\ fetched = NoFetch
    /\ calls = <<>>
    /\ lastError = "none"
    /\ lastWrite = NoWrite

Init == LoaderInit /\ PureIdle

(***************************************************************************)
(* loadPortfolioData.                                                      *)
(***************************************************************************)
\* HitOrMiss fetching whatever the cache gave.
HitOrMiss_AlwaysFetch(r) ==
    [kind |-> "fetch", read |-> TRUE, result |-> r.result, storage |-> r.storage]

\* What the first step does with what getCachedData gave.
HitOrMiss(r) ==
    [kind |-> IF Truthy(r.result) THEN "render" ELSE "fetch",
     read |-> TRUE, result |-> r.result, storage |-> r.storage]

\* LoadBegin without the sample-mode branch.
LoadBegin_IgnoresSample(sample, st, readable, t) ==
    HitOrMiss(GetCachedData(st, readable, t))

\* The first step (lines 24-31): sample mode waits; otherwise the cache is
\* read, and a hit is rendered while a miss is fetched.
LoadBegin(sample, st, readable, t) ==
    IF sample
    THEN [kind |-> "delay", read |-> FALSE, result |-> Undefined, storage |-> st]
    ELSE HitOrMiss(GetCachedData(st, readable, t))

\* The load ends with the outcome o of lines 48-60.
Ends(o) ==
    /\ dom' = o.dom
    /\ observed' = o.observed
    /\ calls' = o.calls
    /\ lastError' = o.error
    /\ pc' = "done"

\* Lines 48-60 for the settled data.
Finish(data) == Ends(RenderData(dom, data, hasObserver))

\* The catch clause for an error thrown before any renderer ran.
Fail(error) ==
    /\ dom' = ShowErrorState(dom)
    /\ lastError' = error
    /\ pc' = "done"
    /\ UNCHANGED <<observed, calls>>

\* loadPortfolioData up to its first await, or to its end, b its first step.
Begins(b) ==
    /\ loadStart' = now
    /\ storage' = b.storage
    /\ cacheReads' = IF b.read THEN cacheReads + 1 ELSE cacheReads
    /\ lastRead' = IF b.read
                   THEN [did |-> TRUE, at |-> now, before |-> storage,
                         after |-> b.storage, result |-> b.result,
                         written |-> lastWrite]
                   ELSE lastRead
    /\ lastWrite' = IF b.storage = storage THEN lastWrite ELSE NoWrite
    /\ CASE b.kind = "delay" ->
              /\ pc' = "delay"
              /\ delayUntil' = now + SampleDelay
              /\ UNCHANGED <<timer, fetchStart, requests, dom, observed,
                             calls, lastError>>
         [] b.kind = "render" ->
              /\ Finish(b.result)
              /\ UNCHANGED <<timer, fetchStart, requests, delayUntil>>
         [] b.kind = "fetch" ->
              /\ pc' = "awaitResponse"
              /\ timer' = [armed |-> TRUE, deadline |-> now + API_TIMEOUT]
              /\ fetchStart' = now
              /\ requests' = requests + 1
              /\ UNCHANGED <<delayUntil, dom, observed, calls, lastError>>

\* The page is ready: loadPortfolioData is called.
DOMContentLoaded ==
    /\ pc = "ready"
    /\ Begins(LoadBegin(useSample, storage, canRead, now))
    /\ UNCHANGED <<now, useSample, hasObserver, canRead, canWrite, loads,
                   cacheWrites, writeThrew, fetched>>
    /\ UNCHANGED pureVars

\* delay(300) resolves: the sample data is rendered.
DelayElapsed ==
    /\ pc = "delay"
    /\ now >= delayUntil
    /\ Finish(SAMPLE_DATA)
    /\ UNCHANGED <<now, useSample, hasObserver, canRead, canWrite, storage, timer,
                   delayUntil, loads, loadStart, fetchStart, requests, cacheReads,
                   cacheWrites, writeThrew, lastRead, fetched, lastWrite>>
    /\ UNCHANGED pureVars

(***************************************************************************)
(* fetchWithTimeout.                                                       *)
(***************************************************************************)
\* fetch resolves with a response: the timeout is cleared, the body is awaited.
ResponseArrives ==
    /\ pc = "awaitResponse"
    /\ timer' = NoTimer
    /\ pc' = "awaitBody"
    /\ UNCHANGED <<now, useSample, hasObserver, canRead, canWrite, storage,
                   delayUntil, dom, observed, loads, loadStart, fetchStart,
                   requests, cacheReads, cacheWrites, writeThrew, lastRead,
                   fetched, calls, lastError, lastWrite>>
    /\ UNCHANGED pureVars

\* fetch rejects with a network error: rethrown as it is.
FetchRejects ==
    /\ pc = "awaitResponse"
    /\ timer' = NoTimer
    /\ Fail("NetworkError")
    /\ UNCHANGED <<now, useSample, hasObserver, canRead, canWrite, storage,
                   delayUntil, loads, loadStart, fetchStart, requests, cacheReads,
                   cacheWrites, writeThrew, lastRead, fetched, lastWrite>>
    /\ UNCHANGED pureVars

\* The timer fires: controller.abort() rejects the fetch with an AbortError,
\* rethrown as Error('Request timeout').
TimeoutFires ==
    /\ pc = "awaitResponse"
    /\ timer.armed
    /\ now >= timer.deadline
    /\ timer' = NoTimer
    /\ Fail("Request timeout")
    /\ UNCHANGED <<now, useSample, hasObserver, canRead, canWrite, storage,
                   delayUntil, loads, loadStart, fetchStart, requests, cacheReads,
                   cacheWrites, writeThrew, lastRead, fetched, lastWrite>>
    /\ UNCHANGED pureVars

\* Lines 38-60 for the answer unwrapped as u.
Continues(u) ==
    /\ storage' = u.storage
    /\ cacheWrites' = IF u.wrote THEN cacheWrites + 1 ELSE cacheWrites
    /\ writeThrew' = u.writeThrew
    /\ lastWrite' = IF u.wrote /\ ~u.writeThrew
                    THEN [valid |-> TRUE, data |-> u.data, at |-> now, load |-> loads]
                    ELSE lastWrite
    /\ IF u.threw
       THEN Fail(u.error) /\ fetched' = fetched
       ELSE Finish(u.data) /\ fetched' = [got |-> TRUE, data |-> u.data]

\* response.json() has read the body: parsed is what JSON.parse makes of it.
Settles(parsed) ==
    IF ~parsed.ok
    THEN /\ Fail("SyntaxError")
         /\ UNCHANGED <<storage, cacheWrites, writeThrew, fetched, lastWrite>>
    ELSE Continues(UseResponse(parsed.val, storage, canWrite, now))

\* response.json() settles with the body read: a SyntaxError for a body that is
\* no JSON, else the loader goes on with the parsed answer (lines 38-60).
BodyRead ==
    /\ pc = "awaitBody"
    /\ \E body \in ResponseBodies : Settles(JSONParse(body))
    /\ UNCHANGED <<now, useSample, hasObserver, canRead, canWrite, timer, delayUntil,
                   loads, loadStart, fetchStart, requests, cacheReads, lastRead>>
    /\ UNCHANGED pureVars

\* response.json() rejects: the connection broke while the body was read.
BodyFails ==
    /\ pc = "awaitBody"
    /\ Fail("NetworkError")
    /\ UNCHANGED <<now, useSample, hasObserver, canRead, canWrite, storage, timer,
                   delayUntil, loads, loadStart, fetchStart, requests, cacheReads,
                   cacheWrites, writeThrew, lastRead, fetched, lastWrite>>
    /\ UNCHANGED pureVars

(***************************************************************************)
(* The environment: time, the viewport, the user.                          *)
(***************************************************************************)
\* 100 ms pass.  A timer that is due fires before more time passes.
Tick ==
    /\ now < MaxTime
    /\ ~(timer.armed /\ now >= timer.deadline)
    /\ ~(pc = "delay" /\ now >= delayUntil)
    /\ now' = now + 1
    /\ UNCHANGED <<useSample, hasObserver, canRead, canWrite, storage, pc, timer,
                   delayUntil, dom, observed, loads, loadStart, fetchStart,
                   requests, cacheReads, cacheWrites, writeThrew, lastRead,
                   fetched, calls, lastError, lastWrite>>
    /\ UNCHANGED pureVars

\* An observed image meets the viewport: the observer's callback (lines 132-139).
Intersect ==
    /\ \E i \in observed :
          /\ dom' = [dom EXCEPT !.grid.cards[i] = LoadImage(@)]
          /\ observed' = observed \ {i}
    /\ UNCHANGED <<now, useSample, hasObserver, canRead, canWrite, storage, pc,
                   timer, delayUntil, loads, loadStart, fetchStart, requests,
                   cacheReads, cacheWrites, writeThrew, lastRead, fetched, calls,
                   lastError, lastWrite>>
    /\ UNCHANGED pureVars

\* The observer delivers a further entry for an image its callback has already
\* handled (two entries of one image in one batch): loadImage and unobserve run
\* on it again.
IntersectAgain ==
    /\ pc = "done"
    /\ hasObserver
    /\ lastError = "none"
    /\ \E i \in (1..Len(dom.grid.cards)) \ observed :
          /\ dom' = [dom EXCEPT !.grid.cards[i] = LoadImage(@)]
          /\ observed' = observed \ {i}
    /\ UNCHANGED <<now, useSample, hasObserver, canRead, canWrite, storage, pc,
                   timer, delayUntil, loads, loadStart, fetchStart, requests,
                   cacheReads, cacheWrites, writeThrew, lastRead, fetched, calls,
                   lastError, lastWrite>>
    /\ UNCHANGED pureVars

\* The user reloads the page once the load has ended (the error state's button,
\* or the browser's): the document and the script start afresh, the session
\* storage stays.
Reload ==
    /\ pc = "done"
    /\ loads < MaxLoads
    /\ loads' = loads + 1
    /\ pc' = "ready"
    /\ timer' = NoTimer
    /\ delayUntil' = 0
    /\ dom' = InitialDocument
    /\ observed' = {}
    /\ loadStart' = 0
    /\ fetchStart' = 0
    /\ requests' = 0
    /\ cacheReads' = 0
    /\ cacheWrites' = 0
    /\ writeThrew' = FALSE
    /\ lastRead' = NoRead
    /\ fetched' = NoFetch
    /\ calls' = <<>>
    /\ lastError' = "none"
    /\ UNCHANGED <<now, useSample, hasObserver, canRead, canWrite, storage, lastWrite>>
    /\ UNCHANGED pureVars

Next ==
    \/ DOMContentLoaded
    \/ DelayElapsed
    \/ ResponseArrives
    \/ FetchRejects
    \/ TimeoutFires
    \/ BodyRead
    \/ BodyFails
    \/ Tick
    \/ Intersect
    \/ IntersectAgain
    \/ Reload

Spec == Init /\ [][Next]_vars

(***************************************************************************)
(* createProjectCard on its own, over every tags value within the bounds:  *)
(* absent, null, a string, an array of strings.                            *)
(***************************************************************************)
SeqsUpTo(S, n) == UNION {[1..m -> S] : m \in 0..n}

TagChars == {"a", " ", ","}
TagStrings == SeqsUpTo(TagChars, MaxTagsLen) \cup {<<"a", ",", " ", "b", " ", ",", "c">>}
TagItems == {Str(s) : s \in SeqsUpTo(TagChars, MaxTagItemLen)}
TagArrays ==
    SeqsUpTo(TagItems, MaxTagItems) \cup {<<Str(<<"a">>), Str(<<"b">>), Str(<<"c">>)>>}
TagValues ==
    {Undefined, Null} \cup {Str(s) : s \in TagStrings} \cup {Arr(a) : a \in TagArrays}

ProjectWithTags(v) == Obj(<<Member(K("title"), Lit("One")), Member(K("tags"), v)>>)

LoaderIdle ==
    /\ LoaderInit
    /\ ~useSample /\ hasObserver /\ canRead /\ canWrite
    /\ storage = NoItem

CardInit ==
    /\ LoaderIdle
    /\ project \in {ProjectWithTags(v) : v \in TagValues}
    /\ article = NoArticle
    /\ profileName = <<>>
    /\ logo = NoLogo

\* What createProjectCard made of the project: [done, threw, tags].
Made(c) ==
    [done |-> TRUE, threw |-> c.threw, tags |-> IF c.threw THEN <<>> ELSE c.card.tags]

CreateCard ==
    /\ ~article.done
    /\ article' = Made(CreateProjectCard(project, 0))
    /\ UNCHANGED <<project, profileName, logo>>
    /\ UNCHANGED loaderVars

CardNext == CreateCard

SpecCard == CardInit /\ [][CardNext]_vars

(***************************************************************************)
(* renderProfile on its own, over every non-empty name within the bounds.  *)
(***************************************************************************)
NameChars == {"J", "d", " ", "\t"}
Names ==
    (SeqsUpTo(NameChars, MaxNameLen) \ {<<>>})
    \cup {<<"J", "a", "n", "e", " ", "D", "o", "e">>, <<"C", "h", "e", "r">>}

LogoInit ==
    /\ LoaderIdle
    /\ project = Undefined
    /\ article = NoArticle
    /\ profileName \in Names
    /\ logo = NoLogo

\* The logo texts of the document a renderer left.
LogoIn(r) ==
    [done |-> TRUE, initial |-> r.dom.logoInitial, name |-> r.dom.logoName]

RenderName ==
    /\ ~logo.done
    /\ logo' = LogoIn(RenderProfile(InitialDocument,
                                    Obj(<<Member(K("name"), Str(profileName))>>)))
    /\ UNCHANGED <<project, article, profileName>>
    /\ UNCHANGED loaderVars

LogoNext == RenderName

SpecLogo == LogoInit /\ [][LogoNext]_vars

(***************************************************************************)
(* Properties.                                                             *)
(***************************************************************************)
Parts == <<"profile", "projects", "social">>
Renderers == <<"renderProfile", "renderProjects", "renderSocialLinks">>

\* The renderers invoked so far were invoked in order, each with its part of
\* data, and each but the last returned.
InvokedWith(data) ==
    /\ Len(calls) \in 1..3
    /\ \A i \in 1..Len(calls) :
          /\ calls[i].fn = Renderers[i]
          /\ calls[i].arg = Get(data, K(Parts[i]))
          /\ i < Len(calls) => calls[i].completed

\* All three renderers were invoked with the parts of data and returned.
AllRenderedWith(data) ==
    /\ Len(calls) = 3
    /\ InvokedWith(data)
    /\ calls[3].completed

ErrorShown == dom.grid.kind = "error"

ProfileUntouched ==
    /\ dom.heroName = InitialRegion
    /\ dom.heroTitle = InitialRegion
    /\ dom.heroDescription = InitialRegion
    /\ dom.logoInitial = InitialText
    /\ dom.logoName = InitialText
    /\ dom.footerText = InitialText

SocialUntouched == dom.links = InitialLinks

\* The read of this load found what an earlier setCachedData stored, and found
\* it before its expiry.
ReadFreshWrite ==
    /\ lastRead.did
    /\ lastRead.written.valid
    /\ lastRead.at - lastRead.written.at < CACHE_DURATION

\* C1: a value stored by setCachedData at time t and read by getCachedData at a
\* time now with now - t < CACHE_DURATION, the item untouched in between, is
\* returned equal to what was stored, and the item stays in storage as it was.
C1_CacheRoundTrip ==
    ReadFreshWrite =>
        /\ lastRead.result = lastRead.written.data
        /\ lastRead.after = lastRead.before
        /\ lastRead.after.present

\* A load read back, before expiry, the portfolio data an earlier load stored.
C1_Witness ==
    /\ ReadFreshWrite
    /\ lastRead.written.data \in WellFormed
    /\ lastRead.result \in WellFormed
    /\ loads = 2

\* The stored item is an envelope: JSON for an object with a numeric timestamp.
IsEnvelope(item) ==
    /\ item.present
    /\ JSONParse(item.text).ok
    /\ JSONParse(item.text).val.t = "object"
    /\ Get(JSONParse(item.text).val, K("timestamp")).t = "number"

TimestampOf(item) == Get(JSONParse(item.text).val, K("timestamp")).n

\* C2: when getCachedData finds a parsable envelope with
\* now - timestamp >= CACHE_DURATION (the boundary included) it returns null
\* and leaves no item in storage; an envelope with
\* now - timestamp < CACHE_DURATION is not removed by the read.
C2_CacheExpiry ==
    (lastRead.did /\ canRead /\ IsEnvelope(lastRead.before)) =>
        IF lastRead.at - TimestampOf(lastRead.before) >= CACHE_DURATION
        THEN lastRead.result = Null /\ ~lastRead.after.present
        ELSE lastRead.after = lastRead.before

\* A read found an envelope exactly CACHE_DURATION old and removed it.
C2_Witness ==
    /\ lastRead.did
    /\ IsEnvelope(lastRead.before)
    /\ lastRead.at - TimestampOf(lastRead.before) = CACHE_DURATION
    /\ ~lastRead.after.present

\* C3: a call of fetchWithTimeout that has not given its parsed JSON when
\* timeoutMs has elapsed does not stay pending, whichever stage is slow (the
\* response or the reading of its body): no call is still pending once more
\* than timeoutMs has passed since it started.
C3_TimeoutEnforced ==
    pc \in {"awaitResponse", "awaitBody"} => now - fetchStart <= API_TIMEOUT

\* C4: when the fetch fails by timeout, by network error or by an answer with
\* success = false, the load ends with the grid replaced by the error state,
\* no renderer invoked and the profile and social regions as they were: the
\* same document in all three cases.
C4_FailuresConverge ==
    (pc = "done" /\ lastError \in {"Request timeout", "NetworkError", "DataError"}) =>
        /\ ~useSample
        /\ requests = 1
        /\ calls = <<>>
        /\ dom = [InitialDocument EXCEPT !.grid = [kind |-> "error", cards |-> <<>>]]

\* A load whose fetch timed out ended in the error state.
C4_Witness ==
    /\ pc = "done"
    /\ lastError = "Request timeout"
    /\ ErrorShown
    /\ ~lastRead.before.present

\* C5: after a load the page is in one of two states: all three renderers
\* returned and the error state is not shown, or the error state is shown and
\* this load wrote no profile, card or social region.
C5_NoPartialState ==
    pc = "done" =>
        \/ /\ Len(calls) = 3
           /\ \A i \in 1..3 : calls[i].completed
           /\ ~ErrorShown
        \/ /\ ErrorShown
           /\ ProfileUntouched
           /\ SocialUntouched

\* With sample mode off a load issues a request exactly when the cache read
\* gave nothing, and at most one.
RequestIffMiss ==
    (~useSample /\ pc # "ready") =>
        /\ lastRead.did
        /\ requests <= 1
        /\ requests = 1 <=> IsNullish(lastRead.result)

C7_SampleMode ==
    useSample =>
        /\ requests = 0
        /\ cacheReads = 0
        /\ cacheWrites = 0
        /\ ~lastRead.did
        /\ pc \in {"ready", "delay"} => calls = <<>>
        /\ pc = "done" =>
              /\ AllRenderedWith(SAMPLE_DATA)
              /\ now - loadStart >= SampleDelay

\* A sample-mode load rendered the sample data over a cache that held an item.
C7_Witness ==
    /\ useSample
    /\ pc = "done"
    /\ AllRenderedWith(SAMPLE_DATA)
    /\ storage.present
    /\ canRead

IsTrimmed(str) == str = <<>> \/ (~IsWhitespace(str[1]) /\ ~IsWhitespace(str[Len(str)]))

TagsOf(p) == Get(p, K("tags"))

StringsOf(items) == [i \in 1..Len(items) |-> items[i].s]

\* C8: whatever the representation of tags (a comma-joined string, an array
\* of strings, or absent), every element of the tag list createProjectCard
\* renders is trimmed and non-empty; and an array and the string that joins
\* it with commas give the same list.
C8_TagsNormalized ==
    (article.done /\ ~article.threw) =>
        /\ \A i \in 1..Len(article.tags) :
              article.tags[i] # <<>> /\ IsTrimmed(article.tags[i])
        /\ TagsOf(project).t = "array" =>
              article.tags = CardTags(Str(Join(StringsOf(TagsOf(project).items),
                                               <<",">>))).tags

HasWhitespace(str) == \E i \in 1..Len(str) : IsWhitespace(str[i])

\* The tokens of a string split on whitespace: its maximal runs of characters
\* that are not whitespace.
RECURSIVE Tokens(_)
Tokens(str) ==
    IF str = <<>> THEN <<>>
    ELSE IF IsWhitespace(str[1]) THEN Tokens(Tail(str))
    ELSE IF \A i \in 1..Len(str) : ~IsWhitespace(str[i]) THEN <<str>>
    ELSE <<SubSeq(str, 1, (CHOOSE i \in 1..Len(str) :
                              /\ IsWhitespace(str[i])
                              /\ \A j \in 1..(i - 1) : ~IsWhitespace(str[j])) - 1)>>
         \o Tokens(SubSeq(str, CHOOSE i \in 1..Len(str) :
                                   /\ IsWhitespace(str[i])
                                   /\ \A j \in 1..(i - 1) : ~IsWhitespace(str[j]),
                          Len(str)))

\* C9: for a name with tokens split on whitespace: with more than one token
\* the logo initial is the first character of the first token and the logo
\* name the other tokens joined by single spaces; with no whitespace the
\* initial is the first character and the logo name the rest; the initial is
\* always a character of the name that is not whitespace.
C9_LogoDerivation ==
    (logo.done /\ Tokens(profileName) # <<>>) =>
        /\ Len(Tokens(profileName)) > 1 =>
              /\ logo.initial = <<Tokens(profileName)[1][1]>>
              /\ logo.name = Join(Tail(Tokens(profileName)), <<" ">>)
        /\ ~HasWhitespace(profileName) =>
              /\ logo.initial = <<profileName[1]>>
              /\ logo.name = Tail(profileName)
        /\ Len(logo.initial) = 1
        /\ ~IsWhitespace(logo.initial[1])
        /\ \E i \in 1..Len(profileName) : profileName[i] = logo.initial[1]

\* The stored item is missing or is no JSON.
MissingOrUnparsable(item) == ~item.present \/ ~JSONParse(item.text).ok

\* C10: when setItem throws after a success = true answer that carries data,
\* the load still invokes all three renderers with the fetched data and does
\* not show the error state; when the stored item is missing or unparsable,
\* or storage throws on read, getCachedData returns null and the load goes on
\* to the fetch.
C10_CacheFailuresNeverSurface ==
    /\ (pc = "done" /\ fetched.got /\ ~IsNullish(fetched.data) /\ writeThrew) =>
           /\ AllRenderedWith(fetched.data)
           /\ ~ErrorShown
    /\ (lastRead.did /\ (~canRead \/ MissingOrUnparsable(lastRead.before))) =>
           /\ lastRead.result = Null
           /\ requests = 1

\* The images of the document: the places of the cards of the grid.
Images(d) == 1..Len(d.grid.cards)

\* initLazyLoading ran in this load: the three renderers had returned.
LazyLoadingAttached ==
    /\ pc = "done"
    /\ lastError = "none"
    /\ Len(calls) = 3
    /\ \A i \in 1..3 : calls[i].completed

\* Only images of the rendered document are observed, and only once the
\* renderers have run; a loaded image got its source from its deferred URL,
\* has lost the deferred attribute, is not observed, and loadImage on it again
\* changes nothing; without IntersectionObserver every image with a deferred
\* URL is loaded as soon as lazy loading is attached.
LazyLoadingState ==
    /\ observed # {} => (LazyLoadingAttached /\ hasObserver)
    /\ \A i \in observed :
          /\ i \in Images(dom)
          /\ dom.grid.cards[i].hasDataSrc
          /\ ~dom.grid.cards[i].imgLoaded
    /\ \A i \in Images(dom) :
          /\ dom.grid.cards[i].imgLoaded =>
                /\ LazyLoadingAttached
                /\ i \notin observed
                /\ ~dom.grid.cards[i].hasDataSrc
                /\ dom.grid.cards[i].dataSrc # <<>>
                /\ dom.grid.cards[i].src = dom.grid.cards[i].dataSrc
                /\ LoadImage(dom.grid.cards[i]) = dom.grid.cards[i]
          /\ (LazyLoadingAttached /\ ~hasObserver /\ dom.grid.cards[i].dataSrc # <<>>) =>
                dom.grid.cards[i].imgLoaded

\* One step: with IntersectionObserver no image is loaded when lazy loading is
\* attached; the source of an image changes only at the intersection of an
\* observed image, which loads it and ends its observation; a loaded image
\* never changes again nor is observed again.
LazyLoadingStep ==
    /\ (pc # "done" /\ pc' = "done" /\ hasObserver) =>
          /\ \A i \in Images(dom') : ~dom'.grid.cards[i].imgLoaded
          /\ LazyLoadingAttached' =>
                observed' = {i \in Images(dom') : dom'.grid.cards[i].hasDataSrc}
    /\ \A i \in Images(dom) \cap Images(dom') :
          /\ dom'.grid.cards[i].src # dom.grid.cards[i].src =>
                /\ i \in observed
                /\ i \notin observed'
                /\ dom'.grid.cards[i].src = dom.grid.cards[i].dataSrc
                /\ dom'.grid.cards[i].imgLoaded
                /\ ~dom'.grid.cards[i].hasDataSrc
          /\ dom.grid.cards[i].imgLoaded =>
                /\ dom'.grid.cards[i] = dom.grid.cards[i]
                /\ i \notin observed'
          /\ (i \notin observed /\ i \in observed') => FALSE

\* C11: images are observed only once they exist in the document after
\* renderProjects has run; the real source of an image with a deferred source
\* is assigned from the deferred URL at most once, and only at its first
\* intersection (or at once for all images without IntersectionObserver);
\* after that the deferred attribute is gone, the image is marked loaded and
\* is no longer observed, and a later intersection or a repeated loadImage
\* changes nothing.
C11_LazyLoadOnce == [](LazyLoadingState) /\ [][LazyLoadingStep]_vars

\* With IntersectionObserver one image has been loaded at its intersection
\* while another is still observed.
C11_Witness ==
    /\ hasObserver
    /\ LazyLoadingAttached
    /\ \E i \in Images(dom) :
          /\ dom.grid.cards[i].imgLoaded
          /\ dom.grid.cards[i].src = dom.grid.cards[i].dataSrc
          /\ ~dom.grid.cards[i].hasDataSrc
          /\ i \notin observed
    /\ observed # {}

=============================================================================
